---- MODULE Spec2Model ----
(***************************************************************************)
(* Model of yoyodyne/data/batches.py: PaddedTensor (padding a list of      *)
(* variable-length index sequences into one 2-D array, its mask and its    *)
(* lengths) and PaddedBatch (source with optional features and target).    *)
(*                                                                         *)
(* A 1-D tensor is a sequence of integers, a 2-D tensor a sequence of rows.*)
(* Optional[...] values are None == <<>> or Some(v) == <<v>>.  Positions   *)
(* are 1-based here and 0-based in the source.                             *)
(***************************************************************************)
EXTENDS Integers, Sequences, FiniteSets, TLC

VARIABLES
    tensorlist,           \* argument tensorlist of PaddedTensor.__init__
    pad_idx,              \* argument pad_idx
    length_msg_callback,  \* TRUE iff a length_msg_callback was supplied
    arg_pad_len,          \* argument pad_len as passed: None or Some(n)
    pad_len,              \* local pad_len after line 43-44: None or Some(n)
    calls,                \* arguments length_msg_callback was invoked with
    rows,                 \* rows produced so far by the list comprehension
    padded,               \* the registered buffer: None or Some(2-D array)
    pc,                   \* position inside PaddedTensor.__init__
    err,                  \* the exception that ended __init__, or "none"
    batch_args,           \* arguments of PaddedBatch.__init__
    source,               \* PaddedBatch.source: None or Some(PaddedTensor)
    features,             \* PaddedBatch.features
    target,               \* PaddedBatch.target
    bpc                   \* position inside PaddedBatch.__init__

tvars == <<tensorlist, pad_idx, length_msg_callback, arg_pad_len, pad_len,
           calls, rows, padded, pc, err>>
bvars == <<batch_args, source, features, target, bpc>>
vars == <<tensorlist, pad_idx, length_msg_callback, arg_pad_len, pad_len,
          calls, rows, padded, pc, err, batch_args, source, features,
          target, bpc>>

----------------------------------------------------------------------------
(* Bounds of the model *)

MaxLen == 2
MaxBatch == 2
BatchMaxLen == 1
BatchMaxRows == 2

Vocab == {0, 1}
BatchVocab == {1}

None == <<>>
Some(v) == <<v>>
IsSome(o) == o # <<>>
Get(o) == o[1]

SeqsUpTo(S, n) == UNION {[1..k -> S] : k \in 0..n}
Tensors == SeqsUpTo(Vocab, MaxLen)
TensorLists == SeqsUpTo(Tensors, MaxBatch)
PadLens == {None} \cup {Some(n) : n \in (0 - 1)..(MaxLen + 1)}

----------------------------------------------------------------------------
(* Tensor operations *)

Range(s) == {s[i] : i \in DOMAIN s}

Repeat(v, n) == [k \in 1..n |-> v]

\* max(len(tensor) for tensor in tensorlist), for a non-empty list
max_len_min(tl) ==
    CHOOSE m \in {Len(tl[i]) : i \in DOMAIN tl} :
        \A i \in DOMAIN tl : Len(tl[i]) >= m

max_len(tl) ==
    CHOOSE m \in {Len(tl[i]) : i \in DOMAIN tl} :
        \A i \in DOMAIN tl : Len(tl[i]) <= m

\* nn.functional.pad(tensor, (0, padding), "constant", value) raises when the
\* resulting size is negative
pad_raises_strict(tensor, padding) == padding < 0

pad_raises(tensor, padding) == Len(tensor) + padding < 0

\* nn.functional.pad(tensor, (0, padding), "constant", value): a non-negative
\* padding appends, a negative one crops at the right end
F_pad_left(tensor, padding, value) ==
    IF padding >= 0
    THEN Repeat(value, padding) \o tensor
    ELSE SubSeq(tensor, 1, Len(tensor) + padding)

F_pad(tensor, padding, value) ==
    IF padding >= 0
    THEN tensor \o Repeat(value, padding)
    ELSE SubSeq(tensor, 1, Len(tensor) + padding)

\* padding = pad_max - len(tensor)
padding_clamped(tensor, pad_max) ==
    IF pad_max >= Len(tensor) THEN pad_max - Len(tensor) ELSE 0

padding_of(tensor, pad_max) == pad_max - Len(tensor)

pad_tensor(tensor, pad_max, value) ==
    F_pad(tensor, padding_of(tensor, pad_max), value)

\* torch.stack raises on an empty list and on rows of differing size
stack_raises(rs) ==
    \/ rs = <<>>
    \/ \E i, j \in DOMAIN rs : Len(rs[i]) # Len(rs[j])

\* a PaddedTensor object: the registered buffer and pad_idx
Tensor(p, idx) == [padded |-> p, pad_idx |-> idx]

\* PaddedTensor.mask
mask_zero(t) ==
    [i \in DOMAIN t.padded |->
        [j \in DOMAIN t.padded[i] |-> t.padded[i][j] = 0]]

mask(t) ==
    [i \in DOMAIN t.padded |->
        [j \in DOMAIN t.padded[i] |-> t.padded[i][j] = t.pad_idx]]

\* (b == v).sum() over one row
RECURSIVE CountEq(_, _)
CountEq(row, v) ==
    IF row = <<>> THEN 0
    ELSE (IF row[1] = v THEN 1 ELSE 0) + CountEq(Tail(row), v)

\* PaddedTensor.lengths
lengths_masked(t) == [i \in DOMAIN t.padded |-> CountEq(mask(t)[i], TRUE)]

lengths_to_first(t) ==
    [i \in DOMAIN t.padded |->
        IF \E j \in DOMAIN t.padded[i] : mask(t)[i][j]
        THEN (CHOOSE j \in DOMAIN t.padded[i] :
                 /\ mask(t)[i][j]
                 /\ \A k \in 1..(j - 1) : ~mask(t)[i][k]) - 1
        ELSE Len(t.padded[i])]

lengths(t) == [i \in DOMAIN t.padded |-> CountEq(mask(t)[i], FALSE)]

\* PaddedTensor.__len__
tensor_len_width(t) == IF t.padded = <<>> THEN 0 ELSE Len(t.padded[1])

tensor_len(t) == Len(t.padded)

----------------------------------------------------------------------------
(* PaddedTensor.__init__ *)

TensorIdle ==
    /\ tensorlist = <<>>
    /\ pad_idx = 0
    /\ length_msg_callback = FALSE
    /\ arg_pad_len = None
    /\ pad_len = None
    /\ calls = <<>>
    /\ rows = <<>>
    /\ padded = None
    /\ pc = "idle"
    /\ err = "none"

BatchIdle ==
    /\ batch_args = None
    /\ source = None
    /\ features = None
    /\ target = None
    /\ bpc = "idle"

Init ==
    /\ tensorlist \in TensorLists
    /\ pad_idx \in Vocab
    /\ length_msg_callback \in BOOLEAN
    /\ arg_pad_len \in PadLens
    /\ pad_len = arg_pad_len
    /\ calls = <<>>
    /\ rows = <<>>
    /\ padded = None
    /\ pc = "pad_len"
    /\ err = "none"
    /\ BatchIdle

\* lines 43-44
ComputePadLen ==
    /\ pc = "pad_len"
    /\ IF IsSome(pad_len)
       THEN /\ pc' = "callback"
            /\ UNCHANGED <<pad_len, err>>
       ELSE IF tensorlist = <<>>
       THEN /\ pc' = "error"
            /\ err' = "max_empty"
            /\ UNCHANGED pad_len
       ELSE /\ pad_len' = Some(max_len(tensorlist))
            /\ pc' = "callback"
            /\ UNCHANGED err
    /\ UNCHANGED <<tensorlist, pad_idx, length_msg_callback, arg_pad_len,
                   calls, rows, padded>>
    /\ UNCHANGED bvars

\* lines 45-46; the callback is the caller's and either returns or raises
CallbackSkipped ==
    /\ pc = "callback"
    /\ pc' = "pad"
    /\ UNCHANGED <<calls, err>>
    /\ UNCHANGED <<tensorlist, pad_idx, length_msg_callback, arg_pad_len,
                   pad_len, rows, padded>>
    /\ UNCHANGED bvars

Callback ==
    /\ pc = "callback"
    /\ IF length_msg_callback
       THEN /\ calls' = Append(calls, Get(pad_len))
            /\ \E raises \in BOOLEAN :
                 IF raises
                 THEN pc' = "error" /\ err' = "callback"
                 ELSE pc' = "pad" /\ UNCHANGED err
       ELSE /\ pc' = "pad"
            /\ UNCHANGED <<calls, err>>
    /\ UNCHANGED <<tensorlist, pad_idx, length_msg_callback, arg_pad_len,
                   pad_len, rows, padded>>
    /\ UNCHANGED bvars

\* lines 51-54: one iteration of the list comprehension
PadNext ==
    /\ pc = "pad"
    /\ Len(rows) < Len(tensorlist)
    /\ LET tensor == tensorlist[Len(rows) + 1] IN
       IF pad_raises(tensor, padding_of(tensor, Get(pad_len)))
       THEN /\ pc' = "error"
            /\ err' = "pad_negative"
            /\ UNCHANGED rows
       ELSE /\ rows' = Append(rows, pad_tensor(tensor, Get(pad_len), pad_idx))
            /\ UNCHANGED <<pc, err>>
    /\ UNCHANGED <<tensorlist, pad_idx, length_msg_callback, arg_pad_len,
                   pad_len, calls, padded>>
    /\ UNCHANGED bvars

\* lines 47-50, 55-56: torch.stack and register_buffer
Stack ==
    /\ pc = "pad"
    /\ Len(rows) = Len(tensorlist)
    /\ IF stack_raises(rows)
       THEN /\ pc' = "error"
            /\ err' = IF rows = <<>> THEN "stack_empty" ELSE "stack_size"
            /\ UNCHANGED padded
       ELSE /\ padded' = Some(rows)
            /\ pc' = "done"
            /\ UNCHANGED err
    /\ UNCHANGED <<tensorlist, pad_idx, length_msg_callback, arg_pad_len,
                   pad_len, calls, rows>>
    /\ UNCHANGED bvars

Next == ComputePadLen \/ Callback \/ PadNext \/ Stack

Spec == Init /\ [][Next]_vars

----------------------------------------------------------------------------
(* Properties of PaddedTensor *)

Done == pc = "done"
NoPadLen == arg_pad_len = None
GivenPadLen == IsSome(arg_pad_len)
InputLen(i) == Len(tensorlist[i])
Width == Len(Get(padded)[1])
Self == Tensor(Get(padded), pad_idx)
NoSentinel == \A i \in DOMAIN tensorlist : pad_idx \notin Range(tensorlist[i])
IsMaxInputLen(m) ==
    /\ \E i \in DOMAIN tensorlist : InputLen(i) = m
    /\ \A i \in DOMAIN tensorlist : InputLen(i) <= m
IsChosenLen(m) ==
    IF GivenPadLen THEN m = Get(arg_pad_len) ELSE IsMaxInputLen(m)
IsRightPadded(row, tensor, m) ==
    /\ Len(row) = m
    /\ \A j \in 1..Len(tensor) : row[j] = tensor[j]
    /\ \A j \in (Len(tensor) + 1)..m : row[j] = pad_idx

\* C1: for a non-empty tensorlist and no pad_len, construction is not ended
\* by this code's own exceptions, and the padded array has one row per input,
\* every row as long as the longest input.
C1_MaxLenWhenNoPadLen ==
    (NoPadLen /\ tensorlist # <<>>) =>
        /\ pc = "error" => err = "callback"
        /\ Done =>
            /\ Len(Get(padded)) = Len(tensorlist)
            /\ \A i \in DOMAIN Get(padded) : IsMaxInputLen(Len(Get(padded)[i]))

C1_Witness ==
    /\ Done
    /\ NoPadLen
    /\ \E i, k \in DOMAIN tensorlist : InputLen(i) < InputLen(k)

\* C2 as stated: for every input and sentinel, mask[i][j] is true exactly
\* when j is at or beyond the original length of sequence i.
C2_MaskBeyondLengthAlways ==
    Done =>
        \A i \in DOMAIN Get(padded) : \A j \in DOMAIN Get(padded)[i] :
            mask(Self)[i][j] <=> (j > InputLen(i))

\* C2 amended: when no input element equals the pad sentinel, mask[i][j] is
\* true exactly when j is at or beyond the original length of sequence i.
C2_MaskBeyondLength ==
    (Done /\ NoSentinel) =>
        \A i \in DOMAIN Get(padded) : \A j \in DOMAIN Get(padded)[i] :
            mask(Self)[i][j] <=> (j > InputLen(i))

C2_Witness ==
    /\ Done
    /\ NoSentinel
    /\ \E i \in DOMAIN Get(padded) :
         /\ InputLen(i) > 0
         /\ InputLen(i) < Width
         /\ ~mask(Self)[i][1]
         /\ mask(Self)[i][Width]

\* C3 as stated: for every input and sentinel, lengths() returns the
\* original length of each input sequence.
C3_LengthsOriginalAlways ==
    Done => \A i \in DOMAIN Get(padded) : lengths(Self)[i] = InputLen(i)

\* C3 amended: when no input element equals the pad sentinel and no input is
\* longer than the chosen length, lengths() returns the original length of
\* each input sequence.
C3_LengthsOriginal ==
    (/\ Done
     /\ NoSentinel
     /\ \A i \in DOMAIN tensorlist : InputLen(i) <= Get(pad_len)) =>
        /\ DOMAIN lengths(Self) = DOMAIN tensorlist
        /\ \A i \in DOMAIN Get(padded) : lengths(Self)[i] = InputLen(i)

C3_Witness ==
    /\ Done
    /\ NoSentinel
    /\ \A i \in DOMAIN tensorlist : InputLen(i) <= Get(pad_len)
    /\ \E i, k \in DOMAIN tensorlist :
         /\ InputLen(i) < InputLen(k)
         /\ lengths(Self)[i] < lengths(Self)[k]

\* C4: whenever the chosen length is at least the length of sequence i, row
\* i is sequence i in order followed by copies of the sentinel up to the
\* chosen length; rows keep the order of the input list.
C4_RightPadded ==
    /\ \A i \in DOMAIN rows : \A m \in (0 - 1)..(MaxLen + 1) :
         (IsChosenLen(m) /\ m >= InputLen(i)) =>
             IsRightPadded(rows[i], tensorlist[i], m)
    /\ Done =>
         /\ Len(Get(padded)) = Len(tensorlist)
         /\ \A i \in DOMAIN Get(padded) : \A m \in (0 - 1)..(MaxLen + 1) :
              (IsChosenLen(m) /\ m >= InputLen(i)) =>
                  IsRightPadded(Get(padded)[i], tensorlist[i], m)

C4_Witness ==
    /\ Done
    /\ Len(tensorlist) = 2
    /\ tensorlist[1] # tensorlist[2]
    /\ \E i \in DOMAIN tensorlist :
         /\ InputLen(i) > 0
         /\ InputLen(i) < Width
         /\ tensorlist[i][1] # pad_idx

\* C6: a supplied callback is invoked exactly once, with the chosen length,
\* while no row has been padded and no buffer registered; without a callback
\* nothing is invoked; the padded array depends only on the other arguments.
C6_State ==
    /\ ~length_msg_callback => calls = <<>>
    /\ pc \in {"pad_len", "callback"} => calls = <<>>
    /\ err = "max_empty" => calls = <<>>
    /\ (length_msg_callback /\ (pc \in {"pad", "done"} \/
            err \in {"callback", "pad_negative", "stack_empty", "stack_size"}))
         => /\ Len(calls) = 1
            /\ IsChosenLen(calls[1])
    /\ Done => \A i \in DOMAIN tensorlist : \A m \in (0 - 1)..(MaxLen + 1) :
         IsChosenLen(m) => Get(padded)[i] = pad_tensor(tensorlist[i], m, pad_idx)

C6_Step ==
    calls' # calls =>
        /\ Len(calls') = Len(calls) + 1
        /\ rows = <<>> /\ rows' = <<>>
        /\ padded = None /\ padded' = None

C6_CallbackOnceBeforePadding == [](C6_State) /\ [][C6_Step]_vars

C6_Witness ==
    /\ Done
    /\ length_msg_callback
    /\ GivenPadLen
    /\ calls = <<Get(arg_pad_len)>>
    /\ \A i \in DOMAIN tensorlist : InputLen(i) # Get(arg_pad_len)

\* C7: with pad_len supplied every padded row has length exactly pad_len,
\* whether the input is shorter, equal or longer, so torch.stack never sees
\* rows of differing length.
C7_RowsHavePadLen ==
    GivenPadLen =>
        /\ \A i \in DOMAIN rows : Len(rows[i]) = Get(arg_pad_len)
        /\ Done => \A i \in DOMAIN Get(padded) :
                      Len(Get(padded)[i]) = Get(arg_pad_len)
        /\ Done => Len(Get(padded)) = Len(tensorlist)
        /\ err # "stack_size"

C7_Witness ==
    /\ Done
    /\ GivenPadLen
    /\ \E i, k \in DOMAIN tensorlist :
         /\ InputLen(i) < Get(arg_pad_len)
         /\ InputLen(k) > Get(arg_pad_len)

\* C8: a supplied non-negative pad_len shorter than some input raises
\* nothing in this code; each longer input is cut to its first pad_len
\* elements and lengths() reports at most pad_len for it, less than the
\* original length.
Truncating ==
    /\ GivenPadLen
    /\ Get(arg_pad_len) >= 0
    /\ \E i \in DOMAIN tensorlist : InputLen(i) > Get(arg_pad_len)

C8_SilentTruncation ==
    Truncating =>
        /\ pc = "error" => err = "callback"
        /\ Done => \A i \in DOMAIN tensorlist :
             InputLen(i) > Get(arg_pad_len) =>
                /\ Len(Get(padded)[i]) = Get(arg_pad_len)
                /\ \A j \in 1..Get(arg_pad_len) :
                     Get(padded)[i][j] = tensorlist[i][j]
                /\ lengths(Self)[i] <= Get(arg_pad_len)
                /\ lengths(Self)[i] < InputLen(i)

C8_Witness ==
    /\ Done
    /\ Truncating
    /\ Get(arg_pad_len) > 0
    /\ \E i \in DOMAIN tensorlist :
         /\ InputLen(i) > Get(arg_pad_len)
         /\ lengths(Self)[i] = Get(arg_pad_len)

\* C10: mask[i][j] is true exactly when padded[i][j] equals pad_idx, that is
\* at a position inside the kept part of the input that holds the sentinel
\* or at a padding position; lengths()[i] plus the number of true mask
\* positions of row i is the padded width, so lengths()[i] is at most it.
C10_MaskFromPadded ==
    Done => \A i \in DOMAIN Get(padded) :
        /\ \A j \in DOMAIN Get(padded)[i] :
             /\ mask(Self)[i][j] <=> (Get(padded)[i][j] = pad_idx)
             /\ mask(Self)[i][j] <=>
                  (j <= InputLen(i) => tensorlist[i][j] = pad_idx)
        /\ lengths(Self)[i]
             + Cardinality({j \in DOMAIN Get(padded)[i] : mask(Self)[i][j]})
             = Width
        /\ lengths(Self)[i] <= Width

C10_Witness ==
    /\ Done
    /\ \E i \in DOMAIN Get(padded) : \E j \in 1..InputLen(i) :
         /\ j < InputLen(i)
         /\ j < Width
         /\ mask(Self)[i][j]
         /\ ~mask(Self)[i][j + 1]
         /\ lengths(Self)[i] < InputLen(i)

----------------------------------------------------------------------------
(* PaddedBatch *)

\* the whole constructor as a function of its arguments, when it succeeds
PaddedTensor(tl, idx) ==
    Tensor([i \in DOMAIN tl |-> pad_tensor(tl[i], max_len(tl), idx)], idx)

BatchTensors ==
    {PaddedTensor(tl, 0) :
        tl \in SeqsUpTo(SeqsUpTo(BatchVocab, BatchMaxLen), BatchMaxRows)
               \ {<<>>}}

BatchInit ==
    /\ TensorIdle
    /\ batch_args \in
         {Some([source |-> s, features |-> f, target |-> t]) :
            s \in BatchTensors,
            f \in {None} \cup {Some(x) : x \in BatchTensors},
            t \in {None} \cup {Some(x) : x \in BatchTensors}}
    /\ source = None
    /\ features = None
    /\ target = None
    /\ bpc = "init"

\* lines 99-103
PaddedBatchInitSwapped ==
    /\ bpc = "init"
    /\ source' = Some(Get(batch_args).source)
    /\ target' = Get(batch_args).features
    /\ features' = Get(batch_args).target
    /\ bpc' = "done"
    /\ UNCHANGED batch_args
    /\ UNCHANGED tvars

PaddedBatchInit ==
    /\ bpc = "init"
    /\ source' = Some(Get(batch_args).source)
    /\ target' = Get(batch_args).target
    /\ features' = Get(batch_args).features
    /\ bpc' = "done"
    /\ UNCHANGED batch_args
    /\ UNCHANGED tvars

\* lines 105-111
has_features == features # None
has_target == target # None

\* lines 113-114
batch_len_width == tensor_len_width(Get(source))

batch_len == tensor_len(Get(source))

BatchNext == PaddedBatchInit

BatchSpec == BatchInit /\ [][BatchNext]_vars

----------------------------------------------------------------------------
(* Properties of PaddedBatch *)

BatchDone == bpc = "done"
Given == Get(batch_args)

\* C5: len(batch) is the number of rows of the source given at construction,
\* whichever of features and target are present and whatever their sizes.
C5_BatchLenIsSourceRows ==
    BatchDone =>
        /\ batch_len = Len(Given.source.padded)
        /\ batch_len = tensor_len(Get(source))

C5_Witness ==
    /\ BatchDone
    /\ has_features
    /\ ~has_target
    /\ Len(Get(features).padded) # batch_len
    /\ Len(Given.source.padded[1]) # batch_len

\* C9: has_features and has_target each tell whether that tensor was given
\* at construction, and source, features and target are the ones passed in.
C9_Accessors ==
    BatchDone =>
        /\ has_features <=> IsSome(Given.features)
        /\ has_target <=> IsSome(Given.target)
        /\ source = Some(Given.source)
        /\ features = Given.features
        /\ target = Given.target

C9_Witness ==
    /\ BatchDone
    /\ has_target
    /\ ~has_features
    /\ Get(target) # Get(source)

====
